---- MODULE Spec2Model ----
(***************************************************************************)
(* Model of src/main.py: the G-Eval summary evaluation script.             *)
(*                                                                         *)
(* One execution of the script (a Streamlit rerun) reads the widgets,      *)
(* builds the summaries mapping, tests the "Evaluate Summaries" guard and, *)
(* when it passes, runs evaluate_summaries (one completion call per        *)
(* metric x summary), pivots the rows and renders the results view.        *)
(* Texts returned by the completion service are sequences of one-character *)
(* strings, so that str.strip() and int() are computed, not assumed.       *)
(***************************************************************************)
EXTENDS Integers, Sequences, FiniteSets, TLC

VARIABLES
    client,         \* the completion-service client (line 11): live, or a deterministic stub
    button,         \* st.button("Evaluate Summaries") of the current script run
    source_text,    \* the source text widget
    num_summaries,  \* the number_input widget
    summaries,      \* the mapping built at lines 134-143: sequence of [label, text]
    pc,             \* position of the script: "start", "loop", "display", "breakdown", "end"
    i,              \* position of the outer loop (metric) in evaluate_summaries
    j,              \* position of the inner loop (summary) in evaluate_summaries
    awaiting,       \* TRUE while a completion request is outstanding
    data,           \* the three row lists of evaluate_summaries
    calls,          \* log of the prompts sent by get_geval_score in this script run
    replies,        \* log of the outcomes of those calls
    pivot_df,       \* the pivoted table, [built |-> FALSE] until line 154 has run
    shown,          \* what the page shows: sequence of [kind, of]
    exc,            \* the exception that ended the script run, "none" otherwise
    earlier         \* an earlier evaluation kept for comparison (stub runs only)

vars == <<client, button, source_text, num_summaries, summaries, pc, i, j,
          awaiting, data, calls, replies, pivot_df, shown, exc, earlier>>

-----------------------------------------------------------------------------
(* Bounds of the exploration *)

\* Largest number of summary slots explored (the widget allows up to MaxValue)
MaxSummaries == 2

\* Longest completion text explored when the parse is checked over all texts
MaxLen == 3

-----------------------------------------------------------------------------
(* Program constants *)

\* st.number_input(..., min_value=1, max_value=5, value=2)
MinValue == 1
MaxValue == 5

Min(a, b) == IF a < b THEN a ELSE b

\* METRICS, in declaration order (dict order is insertion order); rubric texts abbreviated
METRICS ==
    << [name |-> "Relevance",   criteria |-> "Relevance(1-5)",   steps |-> "relevance steps"],
       [name |-> "Coherence",   criteria |-> "Coherence(1-5)",   steps |-> "coherence steps"],
       [name |-> "Consistency", criteria |-> "Consistency(1-5)", steps |-> "consistency steps"],
       [name |-> "Fluency",     criteria |-> "Fluency(1-3)",     steps |-> "fluency steps"] >>

MetricNames == { METRICS[k].name : k \in 1..Len(METRICS) }

\* Values a text widget can hold ("" is the empty widget)
SourceTexts == {"", "The cat sat on the mat."}
SummaryTexts == {"", "A cat sat.", "A dog ran."}

\* f"Summary {i+1}" for the 0-based slot i, given here the 1-based slot k
Label(k) == <<"Summary", k>>

-----------------------------------------------------------------------------
(* Strings of a completion: str.strip() and int() *)

Whitespace == {" ", "\n", "\t"}
DigitChars == {"0", "1", "2", "3", "4", "5", "6", "7", "8", "9"}

DigitValue(c) ==
    CASE c = "0" -> 0 [] c = "1" -> 1 [] c = "2" -> 2 [] c = "3" -> 3 [] c = "4" -> 4
      [] c = "5" -> 5 [] c = "6" -> 6 [] c = "7" -> 7 [] c = "8" -> 8 [] c = "9" -> 9

RECURSIVE lstrip(_)
lstrip(s) == IF s # <<>> /\ Head(s) \in Whitespace THEN lstrip(Tail(s)) ELSE s

RECURSIVE rstrip(_)
rstrip(s) ==
    IF s # <<>> /\ s[Len(s)] \in Whitespace THEN rstrip(SubSeq(s, 1, Len(s) - 1)) ELSE s

\* str.strip()
strip(s) == rstrip(lstrip(s))

\* the digits of a literal, sign removed
Unsigned(s) == IF s # <<>> /\ Head(s) \in {"+", "-"} THEN Tail(s) ELSE s

\* int() accepts: optional surrounding whitespace, an optional sign, then digits
\* that may be separated by single underscores
IsIntLiteral(t) ==
    LET s == Unsigned(strip(t)) IN
      /\ s # <<>>
      /\ \A k \in 1..Len(s) : s[k] \in DigitChars \cup {"_"}
      /\ s[1] \in DigitChars
      /\ s[Len(s)] \in DigitChars
      /\ \A k \in 1..(Len(s) - 1) : ~(s[k] = "_" /\ s[k + 1] = "_")

RECURSIVE DigitsValue(_, _)
DigitsValue(s, acc) ==
    IF s = <<>> THEN acc
    ELSE IF Head(s) = "_" THEN DigitsValue(Tail(s), acc)
    ELSE DigitsValue(Tail(s), 10 * acc + DigitValue(Head(s)))

intLastDigit(t) ==
    LET s == strip(t) IN DigitValue(s[Len(s)])

\* int(t) for a t that IsIntLiteral
int(t) ==
    LET s == strip(t)
        v == DigitsValue(Unsigned(s), 0)
    IN IF Head(s) = "-" THEN 0 - v ELSE v

-----------------------------------------------------------------------------
(* The completion service and get_geval_score *)

\* outcome of client.chat.completions.create: it raises, or yields message.content
Raised == [raised |-> TRUE, content |-> <<>>]
Content(t) == [raised |-> FALSE, content |-> t]

\* EVALUATION_PROMPT_TEMPLATE.format(...)
Prompt(criteria, steps, document, summary, metric_name) ==
    [criteria |-> criteria, steps |-> steps, document |-> document,
     summary |-> summary, metric_name |-> metric_name]

NoPrompt == Prompt("", "", "", "", "")

\* what the live service may answer: a bare score, a padded score, prose, or a failure
LiveReplies ==
    { Content(<<"5">>), Content(<<" ", "3", "\n">>), Content(<<"N", "/", "A">>), Raised }

LiveClient == [kind |-> "live", base |-> Raised, at |-> NoPrompt, alt |-> Raised]

\* a stub service is a function of the prompt: alt for the prompt at, base for any other
StubClient(base, at, alt) == [kind |-> "stub", base |-> base, at |-> at, alt |-> alt]

\* the outcomes the call of get_geval_score may have for this prompt
Completions(c, prompt) ==
    IF c.kind = "live" THEN LiveReplies
    ELSE { IF prompt = c.at THEN c.alt ELSE c.base }

-----------------------------------------------------------------------------
(* The script above the button: widgets, summaries mapping, guard *)

\* lines 134-143: only the non-empty fields enter the mapping, in slot order
BuildSummaries(n, fields) ==
    SelectSeq([k \in 1..n |-> [label |-> Label(k), text |-> fields[k]]],
              LAMBDA e : e.text # "")

\* line 146: st.button(...) and source_text and all(summaries.values())
guard(b, src, summ) ==
    /\ b
    /\ src # ""
    /\ \A k \in 1..Len(summ) : summ[k].text # ""

Element(kind, of) == [kind |-> kind, of |-> of]

-----------------------------------------------------------------------------
(* evaluate_summaries *)

EmptyData == [EvaluationType |-> <<>>, SummaryType |-> <<>>, Score |-> <<>>]

dataKept(old) == old

\* line 101: data = {"Evaluation Type": [], "Summary Type": [], "Score": []}
NewData(old) == EmptyData

nextPairColumnMajor(mi, sj, n) ==
    IF mi < Len(METRICS) THEN <<mi + 1, sj>>
    ELSE IF sj < n THEN <<1, sj + 1>>
    ELSE <<Len(METRICS) + 1, 1>>

nextPairOffByOne(mi, sj, n) == IF sj + 1 < n THEN <<mi, sj + 1>> ELSE <<mi + 1, 1>>

\* lines 103-104: the position after the pair (mi, sj): summaries inside metrics
nextPair(mi, sj, n) == IF sj < n THEN <<mi, sj + 1>> ELSE <<mi + 1, 1>>

\* lines 103-104: neither loop has an iteration left
loopDone(mi, sj, n) == n = 0 \/ mi > Len(METRICS)

scoreOrDefault(r) ==
    IF r.raised THEN [exc |-> "APIError", score |-> 0]
    ELSE IF ~IsIntLiteral(strip(r.content)) THEN [exc |-> "none", score |-> 0]
    ELSE [exc |-> "none", score |-> int(strip(r.content))]

scoreOrSkipOnError(r) ==
    IF r.raised THEN [exc |-> "none", score |-> 0]
    ELSE IF ~IsIntLiteral(strip(r.content)) THEN [exc |-> "ValueError", score |-> 0]
    ELSE [exc |-> "none", score |-> int(strip(r.content))]

\* lines 107-114: the call raises, or int(result.strip()) raises, or yields the score
score_num(r) ==
    IF r.raised THEN [exc |-> "APIError", score |-> 0]
    ELSE IF ~IsIntLiteral(strip(r.content)) THEN [exc |-> "ValueError", score |-> 0]
    ELSE [exc |-> "none", score |-> int(strip(r.content))]

-----------------------------------------------------------------------------
(* DataFrame, pivot *)

NoTable == [built |-> FALSE, index |-> {}, columns |-> {}, cells |-> <<>>]

\* pd.DataFrame(data) needs lists of one length
FrameOk(d) ==
    /\ Len(d.EvaluationType) = Len(d.SummaryType)
    /\ Len(d.SummaryType) = Len(d.Score)

\* DataFrame.pivot raises ValueError on a duplicate (index, column) entry
PivotOk(d) ==
    \A a, b \in 1..Len(d.EvaluationType) :
        (d.EvaluationType[a] = d.EvaluationType[b] /\ d.SummaryType[a] = d.SummaryType[b])
            => a = b

pivotFirstColumn(d) ==
    LET rows == 1..Len(d.EvaluationType)
        keys == { <<d.EvaluationType[k], d.SummaryType[k]>> : k \in rows }
    IN [built |-> TRUE,
        index |-> { d.EvaluationType[k] : k \in rows },
        columns |-> { d.SummaryType[k] : k \in rows },
        cells |-> [key \in keys |->
                     d.Score[CHOOSE k \in rows : d.EvaluationType[k] = key[1]]]]

\* lines 154-158: rows = metrics, columns = summary labels, cell = the row's score
pivot(d) ==
    LET rows == 1..Len(d.EvaluationType)
        keys == { <<d.EvaluationType[k], d.SummaryType[k]>> : k \in rows }
    IN [built |-> TRUE,
        index |-> { d.EvaluationType[k] : k \in rows },
        columns |-> { d.SummaryType[k] : k \in rows },
        cells |-> [key \in keys |->
                     d.Score[CHOOSE k \in rows :
                                /\ d.EvaluationType[k] = key[1]
                                /\ d.SummaryType[k] = key[2]]]]

-----------------------------------------------------------------------------
(* Rendering *)

displayUnguarded(available) ==
    IF available THEN [exc |-> "none", shown |-> <<Element("styled_table", "")>>]
    ELSE [exc |-> "ImportError", shown |-> <<>>]

\* lines 161-171: the styled table, or on ImportError the error message
display(available) ==
    IF available THEN [exc |-> "none", shown |-> <<Element("styled_table", "")>>]
    ELSE [exc |-> "none", shown |-> <<Element("error", "Matplotlib is required")>>]

\* lines 175-184 for the metrics from position k on: pivot_df.loc[eval_type] raises
\* KeyError when the table has no such row, which ends the loop
RECURSIVE breakdown(_, _)
breakdown(table, k) ==
    IF k > Len(METRICS) THEN [exc |-> "none", shown |-> <<>>]
    ELSE IF METRICS[k].name \notin table.index
         THEN [exc |-> "KeyError", shown |-> <<Element("write", METRICS[k].name)>>]
    ELSE LET rest == breakdown(table, k + 1)
         IN [exc |-> rest.exc,
             shown |-> << Element("write", METRICS[k].name),
                          Element("bar_chart", METRICS[k].name),
                          Element("expander", METRICS[k].name) >> \o rest.shown]

-----------------------------------------------------------------------------
(* State machine *)

DefaultValue == 2

NoRun == [taken |-> FALSE, source_text |-> "", summaries |-> <<>>,
          exc |-> "none", pivot_df |-> NoTable, calls |-> <<>>]

InitScript ==
    /\ button = FALSE
    /\ source_text = ""
    /\ num_summaries = DefaultValue
    /\ summaries = <<>>
    /\ pc = "start"
    /\ i = 1
    /\ j = 1
    /\ awaiting = FALSE
    /\ data = EmptyData
    /\ calls = <<>>
    /\ replies = <<>>
    /\ pivot_df = NoTable
    /\ shown = <<>>
    /\ exc = "none"
    /\ earlier = NoRun

\* the script runs against the live completion service
Init == client = LiveClient /\ InitScript

\* One execution of lines 120-149 and 185-186: the widgets are read, the mapping is
\* built, and the guard either enters evaluate_summaries or shows the prompt message.
RunScript ==
    /\ pc = "start"
    /\ \E b \in BOOLEAN, src \in SourceTexts, n \in MinValue..Min(MaxValue, MaxSummaries) :
         \E fields \in [1..n -> SummaryTexts] :
            LET summ == BuildSummaries(n, fields) IN
              /\ button' = b
              /\ source_text' = src
              /\ num_summaries' = n
              /\ summaries' = summ
              /\ IF guard(b, src, summ)
                 THEN /\ pc' = "loop"
                      /\ shown' = <<Element("header", "Evaluation Results")>>
                      /\ data' = NewData(data)
                 ELSE /\ pc' = "end"
                      /\ shown' = <<Element("info", "Please enter")>>
                      /\ data' = EmptyData
    /\ i' = 1
    /\ j' = 1
    /\ awaiting' = FALSE
    /\ calls' = <<>>
    /\ replies' = <<>>
    /\ pivot_df' = NoTable
    /\ exc' = "none"
    /\ UNCHANGED <<client, earlier>>

\* lines 105-113 up to the request: the labels are appended, the prompt is sent
IssueCall ==
    /\ pc = "loop"
    /\ ~awaiting
    /\ ~loopDone(i, j, Len(summaries))
    /\ data' = [data EXCEPT !.EvaluationType = Append(@, METRICS[i].name),
                            !.SummaryType = Append(@, summaries[j].label)]
    /\ calls' = Append(calls, Prompt(METRICS[i].criteria, METRICS[i].steps, source_text,
                                     summaries[j].text, METRICS[i].name))
    /\ awaiting' = TRUE
    /\ UNCHANGED <<client, button, source_text, num_summaries, summaries, pc, i, j,
                   replies, pivot_df, shown, exc, earlier>>

\* lines 89-98 and 114-115: the response arrives and is parsed; an exception ends the
\* script run, a score is appended and the loops advance
CompletionReturns ==
    /\ pc = "loop"
    /\ awaiting
    /\ \E r \in Completions(client, calls[Len(calls)]) :
         LET res == score_num(r) IN
           /\ replies' = Append(replies, r)
           /\ IF res.exc # "none"
              THEN /\ exc' = res.exc
                   /\ pc' = "end"
                   /\ shown' = Append(shown, Element("exception", res.exc))
                   /\ UNCHANGED <<data, i, j>>
              ELSE /\ data' = [data EXCEPT !.Score = Append(@, res.score)]
                   /\ i' = nextPair(i, j, Len(summaries))[1]
                   /\ j' = nextPair(i, j, Len(summaries))[2]
                   /\ UNCHANGED <<exc, pc, shown>>
    /\ awaiting' = FALSE
    /\ UNCHANGED <<client, button, source_text, num_summaries, summaries, calls,
                   pivot_df, earlier>>

\* lines 117 and 151-158: the frame is returned and pivoted; the frame of an empty
\* mapping has no rows and pivots to a table without rows or columns
ReturnAndPivot ==
    /\ pc = "loop"
    /\ ~awaiting
    /\ loopDone(i, j, Len(summaries))
    /\ IF FrameOk(data) /\ PivotOk(data)
       THEN /\ pivot_df' = pivot(data)
            /\ pc' = "display"
            /\ UNCHANGED <<exc, shown>>
       ELSE /\ exc' = "ValueError"
            /\ pc' = "end"
            /\ shown' = Append(shown, Element("exception", "ValueError"))
            /\ UNCHANGED pivot_df
    /\ UNCHANGED <<client, button, source_text, num_summaries, summaries, i, j, awaiting,
                   data, calls, replies, earlier>>

\* lines 160-171: the styling capability is there or it is not
Display ==
    /\ pc = "display"
    /\ \E available \in BOOLEAN :
         LET res == display(available) IN
           /\ shown' = shown \o res.shown
                         \o (IF res.exc = "none" THEN <<>>
                             ELSE <<Element("exception", res.exc)>>)
           /\ exc' = res.exc
           /\ pc' = IF res.exc = "none" THEN "breakdown" ELSE "end"
    /\ UNCHANGED <<client, button, source_text, num_summaries, summaries, i, j, awaiting,
                   data, calls, replies, pivot_df, earlier>>

\* lines 173-184: the per-metric charts and rubric viewers
Breakdown ==
    /\ pc = "breakdown"
    /\ LET res == breakdown(pivot_df, 1) IN
         /\ shown' = (Append(shown, Element("subheader", "Detailed Scores")) \o res.shown)
                       \o (IF res.exc = "none" THEN <<>>
                           ELSE <<Element("exception", res.exc)>>)
         /\ exc' = res.exc
    /\ pc' = "end"
    /\ UNCHANGED <<client, button, source_text, num_summaries, summaries, i, j, awaiting,
                   data, calls, replies, pivot_df, earlier>>

\* A widget interaction after the script has ended: the page is cleared and the script
\* starts again from line 1; nothing of the finished run is passed on
Rerun ==
    /\ pc = "end"
    /\ pc' = "start"
    /\ button' = FALSE
    /\ source_text' = ""
    /\ num_summaries' = DefaultValue
    /\ summaries' = <<>>
    /\ i' = 1
    /\ j' = 1
    /\ awaiting' = FALSE
    /\ calls' = <<>>
    /\ replies' = <<>>
    /\ pivot_df' = NoTable
    /\ shown' = <<>>
    /\ exc' = "none"
    /\ UNCHANGED <<client, data, earlier>>

Next ==
    \/ RunScript
    \/ Rerun
    \/ IssueCall
    \/ CompletionReturns
    \/ ReturnAndPivot
    \/ Display
    \/ Breakdown

Spec == Init /\ [][Next]_vars

-----------------------------------------------------------------------------
(* The same script against stub completion services *)

\* the prompts a run can send
StubPrompts ==
    { Prompt(METRICS[k].criteria, METRICS[k].steps, d, t, METRICS[k].name) :
        k \in 1..Len(METRICS), d \in SourceTexts \ {""}, t \in SummaryTexts \ {""} }

StubBases == { Content(<<"5">>) }
StubAlts == { Content(<<" ", "3", "\n">>), Content(<<"N", "/", "A">>), Raised }

\* deterministic stubs: one answer for every prompt, or one prompt answered differently
StubClients ==
    { StubClient(b, NoPrompt, b) : b \in StubBases }
      \cup { StubClient(b, q, a) : b \in StubBases, q \in StubPrompts, a \in StubAlts }

InitStub == client \in StubClients /\ InitScript

\* A finished evaluation is kept, to be compared with the evaluations that follow it
Remember ==
    /\ pc = "end"
    /\ shown # <<>>
    /\ shown[1].kind = "header"
    /\ earlier' = [taken |-> TRUE, source_text |-> source_text, summaries |-> summaries,
                   exc |-> exc, pivot_df |-> pivot_df, calls |-> calls]
    /\ UNCHANGED <<client, button, source_text, num_summaries, summaries, pc, i, j,
                   awaiting, data, calls, replies, pivot_df, shown, exc>>

StubNext ==
    \/ Next
    \/ Remember

StubSpec == InitStub /\ [][StubNext]_vars

\* the characters of the completion texts explored by ParseSpec
Alphabet == {"1", "3", " ", "\n", "-"}

Texts(n) == UNION { [1..k -> Alphabet] : k \in 0..n }

\* a stub that answers every prompt with one text, any text up to MaxLen characters
InitParse ==
    /\ client \in { StubClient(Content(t), NoPrompt, Content(t)) : t \in Texts(MaxLen) }
    /\ InitScript

ParseSpec == InitParse /\ [][Next]_vars

\* a step of a script run that has started
Step ==
    \/ IssueCall
    \/ CompletionReturns
    \/ ReturnAndPivot
    \/ Display
    \/ Breakdown

\* one script run, from the fresh page to the end of the script
OneRun ==
    \/ RunScript
    \/ Step

\* One script run against any of the stub services. The script is sequential, so at
\* most one of its steps is enabled and it is taken; the completion call returns or
\* raises (the client library applies its default request timeout).
FairSpec == InitStub /\ [][OneRun]_vars /\ WF_vars(Step)

-----------------------------------------------------------------------------
(* Vocabulary of the properties *)

N == Len(summaries)

\* the script run entered evaluate_summaries
Evaluated == shown # <<>> /\ shown[1].kind = "header"

\* the script run showed only the prompt message
Declined ==
    /\ pc = "end"
    /\ shown = <<Element("info", "Please enter")>>
    /\ exc = "none"

Shows(kind) == \E k \in 1..Len(shown) : shown[k].kind = kind

ShowsFor(kind, of) == \E k \in 1..Len(shown) : shown[k] = Element(kind, of)

\* the text without its whitespace characters
Core(t) == SelectSeq(t, LAMBDA c : c \notin Whitespace)

\* t is whitespace, then an optional minus sign and one or more digits, then whitespace
PaddedInteger(t) ==
    \E lo, hi \in 1..Len(t) :
        /\ lo <= hi
        /\ \A k \in 1..Len(t) : (k < lo \/ k > hi) => t[k] \in Whitespace
        /\ t[hi] \in DigitChars
        /\ t[lo] \in DigitChars \cup {"-"}
        /\ \A k \in (lo + 1)..hi : t[k] \in DigitChars

\* the number a sequence of digits denotes, read from the right
RECURSIVE DecimalOf(_)
DecimalOf(d) ==
    IF d = <<>> THEN 0
    ELSE 10 * DecimalOf(SubSeq(d, 1, Len(d) - 1)) + DigitValue(d[Len(d)])

\* the integer a padded integer text denotes
IntegerOf(t) ==
    LET c == Core(t) IN
      IF Head(c) = "-" THEN 0 - DecimalOf(Tail(c)) ELSE DecimalOf(c)

\* the completion texts of the specifications
ReplyTexts ==
    Texts(MaxLen) \cup { r.content : r \in LiveReplies \cup StubBases \cup StubAlts }

\* PaddedInteger, tabulated over the completion texts
IsPadded == [t \in ReplyTexts |-> PaddedInteger(t)]

\* the call failed: it raised, or its text is no integer once trimmed
BadReply(r) == r.raised \/ ~IsPadded[r.content]

\* the position in the call sequence of the call for metric mi and summary sj
CallIndex(mi, sj) == (mi - 1) * N + sj

-----------------------------------------------------------------------------
(* C1 *)

\* C1: when evaluate_summaries has returned for a mapping of N entries (N in 1..5)
\* and the pivot has run, exactly 4*N calls were issued and the table has 4 rows and
\* N columns with a value in every cell.
C1_CallsAndTableShape ==
    (pivot_df.built /\ N \in 1..MaxValue) =>
        /\ Len(calls) = 4 * N
        /\ Len(replies) = 4 * N
        /\ Cardinality(pivot_df.index) = 4
        /\ Cardinality(pivot_df.columns) = N
        /\ DOMAIN pivot_df.cells = pivot_df.index \X pivot_df.columns

C1_Witness ==
    /\ pivot_df.built
    /\ N = 2
    /\ Len(calls) = 8
    /\ Cardinality(DOMAIN pivot_df.cells) = 8

-----------------------------------------------------------------------------
(* C2 *)

\* C2: when a call of the run raised or returned a text that is no integer, the script
\* run has ended with that exception, no table was built and none is shown, and the
\* labels of the failing pair are in the row lists although no score was appended for it.
C2_FailedCallNoReport ==
    \A k \in 1..Len(replies) :
        BadReply(replies[k]) =>
            /\ pc = "end"
            /\ exc \in {"APIError", "ValueError"}
            /\ ~pivot_df.built
            /\ ~Shows("styled_table")
            /\ ~Shows("bar_chart")
            /\ Len(data.EvaluationType) = k
            /\ Len(data.SummaryType) = k
            /\ Len(data.Score) = k - 1
            /\ data.EvaluationType[k] = calls[k].metric_name

C2_Witness ==
    /\ Len(replies) = 3
    /\ replies[3] = Content(<<"N", "/", "A">>)
    /\ pc = "end"
    /\ Len(data.EvaluationType) = 3
    /\ Len(data.Score) = 2

-----------------------------------------------------------------------------
(* C3 *)

\* C3: when the trigger is pressed with a source text and an empty summaries mapping,
\* the script run is declined: no call is issued, evaluate_summaries is not entered,
\* no report is built and only the prompt message is shown.
C3_EmptyMappingDeclined ==
    (pc # "start" /\ button /\ source_text # "" /\ N = 0) =>
        /\ Declined
        /\ calls = <<>>
        /\ ~pivot_df.built

-----------------------------------------------------------------------------
(* C4 *)

\* C4: when the trigger is pressed and the source text is empty or one of the
\* num_summaries summary fields is empty, the script run is declined: evaluate_summaries
\* is not entered, no call is issued, the prompt message is shown, no exception is raised.
C4_IncompleteInputDeclined ==
    (pc # "start" /\ button /\ (source_text = "" \/ N < num_summaries)) =>
        /\ Declined
        /\ calls = <<>>
        /\ ~pivot_df.built

-----------------------------------------------------------------------------
(* C5 *)

\* C5: when the response to call k is an integer padded with whitespace, the score
\* recorded for call k is that integer, and it is the score recorded for the same text
\* with the whitespace removed.
C5_PaddedIntegerScore ==
    \A k \in 1..Len(replies) :
        (~replies[k].raised /\ IsPadded[replies[k].content]) =>
            /\ Len(data.Score) >= k
            /\ data.Score[k] = IntegerOf(replies[k].content)
            /\ score_num(Content(Core(replies[k].content)))
                 = [exc |-> "none", score |-> data.Score[k]]

C5_Witness ==
    /\ Len(replies) >= 1
    /\ replies[1] = Content(<<"3", "\n">>)
    /\ data.Score[1] = 3

-----------------------------------------------------------------------------
(* C6 *)

\* C6: against a stub service that is a function of the prompt, a finished evaluation
\* with the document and the summaries mapping of an earlier finished evaluation has
\* the same outcome, the same table and the same call sequence as the earlier one.
C6_SameInputsSameReport ==
    ( /\ earlier.taken
      /\ pc = "end"
      /\ Evaluated
      /\ source_text = earlier.source_text
      /\ summaries = earlier.summaries ) =>
        /\ pivot_df = earlier.pivot_df
        /\ calls = earlier.calls
        /\ exc = earlier.exc

C6_Witness ==
    /\ earlier.taken
    /\ pc = "end"
    /\ Evaluated
    /\ replies # <<>>
    /\ source_text = earlier.source_text
    /\ summaries = earlier.summaries
    /\ N = 2
    /\ pivot_df.built
    /\ pivot_df = earlier.pivot_df

-----------------------------------------------------------------------------
(* C7 *)

\* C7: the k-th call (0-based) of a run is for metric k div N and summary k mod N, in
\* catalog order and mapping order; at most one call is outstanding, and every call
\* before the latest one has had its response received and parsed into a score.
C7_RowMajorOneAtATime ==
    /\ \A k \in 1..Len(calls) :
         LET mi == ((k - 1) \div N) + 1
             sj == ((k - 1) % N) + 1
         IN /\ mi <= Len(METRICS)
            /\ calls[k] = Prompt(METRICS[mi].criteria, METRICS[mi].steps, source_text,
                                 summaries[sj].text, METRICS[mi].name)
            /\ data.EvaluationType[k] = METRICS[mi].name
            /\ data.SummaryType[k] = summaries[sj].label
    /\ Len(calls) = Len(replies) + (IF awaiting THEN 1 ELSE 0)
    /\ Len(calls) > 0 => Len(data.Score) >= Len(calls) - 1

C7_Witness ==
    /\ N = 2
    /\ Len(calls) = 8
    /\ awaiting
    /\ calls[2].summary # calls[1].summary
    /\ calls[3].metric_name = "Coherence"

-----------------------------------------------------------------------------
(* C8 *)

\* a run of evaluate_summaries is over in one of the two outcomes
C8_Outcome ==
    (Evaluated /\ pc # "loop") =>
        \/ /\ pivot_df.built
           /\ exc \notin {"APIError", "ValueError"}
           /\ Len(calls) = 4 * N
           /\ Len(replies) = 4 * N
           /\ \A k \in 1..Len(replies) : ~BadReply(replies[k])
        \/ /\ ~pivot_df.built
           /\ exc \in {"APIError", "ValueError"}
           /\ replies # <<>>
           /\ BadReply(replies[Len(replies)])

\* the failing call is the last call of the run, and no score stands in for it
C8_NothingAfterFailure ==
    \A k \in 1..Len(replies) :
        BadReply(replies[k]) =>
            /\ k = Len(calls)
            /\ ~awaiting
            /\ pc = "end"
            /\ Len(data.Score) = k - 1

\* C8: a started run always terminates, in exactly one of two outcomes: all 4*N calls
\* completed and a table built, or failure at the first call that raises or returns an
\* unparseable text, after which no call is issued and no score is substituted.
C8_RunEndsOneOfTwoWays ==
    /\ [](C8_Outcome /\ C8_NothingAfterFailure)
    /\ ((pc = "loop") ~> (pc # "loop"))

C8_Witness ==
    /\ pc = "end"
    /\ exc = "APIError"
    /\ Len(calls) = 3
    /\ Len(replies) = 3
    /\ ~BadReply(replies[2])

-----------------------------------------------------------------------------
(* C9 *)

\* C9: in a built table the rows are the cross product of the metrics and the labels of
\* the mapping, each pair once, and the cell of (metric, label) is the integer denoted
\* by the response to the one call made for that pair.
C9_CellsAreTheParsedReplies ==
    pivot_df.built =>
        /\ Len(data.EvaluationType) = 4 * N
        /\ DOMAIN pivot_df.cells = MetricNames \X { summaries[sj].label : sj \in 1..N }
        /\ \A mi \in 1..Len(METRICS), sj \in 1..N :
             LET key == <<METRICS[mi].name, summaries[sj].label>>
                 at == { k \in 1..Len(data.EvaluationType) :
                           <<data.EvaluationType[k], data.SummaryType[k]>> = key }
             IN /\ at = { CallIndex(mi, sj) }
                /\ calls[CallIndex(mi, sj)].metric_name = METRICS[mi].name
                /\ calls[CallIndex(mi, sj)].summary = summaries[sj].text
                /\ pivot_df.cells[key] = IntegerOf(replies[CallIndex(mi, sj)].content)

C9_Witness ==
    /\ pivot_df.built
    /\ N = 2
    /\ pivot_df.cells[<<"Coherence", summaries[1].label>>] = 5
    /\ pivot_df.cells[<<"Coherence", summaries[2].label>>] = 3

\* the spec's example: a service answering "5" to every call gives 8 cells equal to 5
C9_AllFives ==
    /\ pivot_df.built
    /\ N = 2
    /\ \A k \in 1..Len(replies) : replies[k] = Content(<<"5">>)
    /\ \A key \in DOMAIN pivot_df.cells : pivot_df.cells[key] = 5

-----------------------------------------------------------------------------
(* C10 *)

\* the table was built and the display step is over without the styled table
StylingUnavailable ==
    /\ pivot_df.built
    /\ pc \in {"breakdown", "end"}
    /\ ~Shows("styled_table")

\* C10 as stated: when the styled render raises ImportError, a plain display of the
\* score table is substituted, so the grid is still shown, and the rest of the view
\* is rendered.
C10_PlainTableSubstituted ==
    StylingUnavailable =>
        /\ Shows("table")
        /\ exc # "ImportError"

\* C10 as amended: when the styled render raises ImportError, the ImportError is caught
\* and an error message is shown in place of the score table (no table is shown), and
\* the script goes on to the detailed breakdown: the subheader and, for every metric
\* row of the table, its chart and its rubric viewer are rendered.
C10_ErrorMessageInPlaceOfTable ==
    StylingUnavailable =>
        /\ ShowsFor("error", "Matplotlib is required")
        /\ ~Shows("table")
        /\ exc # "ImportError"
        /\ pc = "end" =>
             /\ Shows("subheader")
             /\ \A m \in pivot_df.index :
                  ShowsFor("bar_chart", m) /\ ShowsFor("expander", m)

C10_Witness ==
    /\ StylingUnavailable
    /\ pc = "end"
    /\ N = 2
    /\ ShowsFor("error", "Matplotlib is required")
    /\ ShowsFor("bar_chart", "Fluency")
    /\ ShowsFor("expander", "Fluency")

====
